---- MODULE Spec2Model ----
(***************************************************************************)
(* A model of editor/src/render/map.rs: the DrawMap (static drawables and  *)
(* their quadtree), the tick-scoped AgentCache behind a RefCell, and       *)
(* DrawMap::handle_objects, the per-frame dispatch pass.                   *)
(*                                                                         *)
(* The specifications share the variables:                                 *)
(*   SpecCache    the AgentCache driven directly through has / get / put;  *)
(*   SpecBuild    DrawMap::new over a family of maps and flags;            *)
(*   SpecOffsets  DrawMap::new over road networks of turns of any angles;  *)
(*   SpecEdit     the same, followed by edit_add_turn / edit_remove_turn;  *)
(*   Spec         dispatch passes of handle_objects over a built DrawMap;  *)
(*   SpecTicks    more passes, over fewer arguments;                       *)
(*   SpecLeak     passes over a quadtree holding an id new never inserts.  *)
(***************************************************************************)
EXTENDS Integers, Sequences, FiniteSets, TLC

VARIABLES
    agents,      \* the AgentCache inside the RefCell: [tick, agents_per_on]
    borrow,      \* the RefCell's borrow flag: 0 free, n > 0 shared, -1 exclusive
    panicked,    \* a panic!/assert!/failed index has ended the program
    putLog,      \* history: the puts that returned, oldest first
    lastOp,      \* history: the last cache operation called and what it returned
    map,         \* the map_model::Map handed to DrawMap::new
    flags,       \* the Flags handed to DrawMap::new
    dm,          \* the DrawMap's static part: drawables per category and the quadtree
    pc,          \* where the program is
    arg,         \* handle_objects: its arguments (and the tick sim reports during it)
    todo,        \* handle_objects: the ids of the quadtree query not yet looked at
    buckets,     \* handle_objects: areas, parcels, .., turn_icons
    agents_on,   \* handle_objects: agents_on
    borrows,     \* handle_objects: borrows, once sorted (and reversed)
    delivered,   \* history: what the callback has been called with in this pass
    aborted,     \* history: the callback has returned false in this pass
    passes,      \* history: how many passes have started
    asked,       \* history: per (segment, tick), how often sim was asked for cars, peds
    run_asked,   \* history: the same, within the current run of passes of one tick
    prev         \* history: the previous pass: its arguments and what it delivered

buildVars == <<map, flags, dm>>
apiVars == <<putLog, lastOp>>
passVars == <<arg, todo, buckets, agents_on, borrows, delivered, aborted, passes,
              asked, run_asked, prev>>
vars == <<agents, borrow, panicked, putLog, lastOp, map, flags, dm, pc,
          arg, todo, buckets, agents_on, borrows, delivered, aborted, passes,
          asked, run_asked, prev>>

----------------------------------------------------------------------------
(* Bounds of the model. *)

\* Ticks the simulation reports are 0..MaxTick.
MaxTick == 1
\* SpecCache stops calling put after this many puts have returned.
MaxPuts == 3
\* Spec runs this many passes of handle_objects, SpecTicks this many.
MaxPasses == 2
MaxTickPasses == 3

Ticks == 0..MaxTick

----------------------------------------------------------------------------
(* Values. *)

\* Option<T>: None is the empty sequence, Some(x) the one-element sequence.
None == <<>>
Some(x) == <<x>>

\* ID (crate::objects::ID) and Traversable are tagged values: <<category, id>>.
\* LaneID, IntersectionID, ... are numbers from 0; a TurnID is a record.
TurnID(parent, src, dst) == [parent |-> parent, src |-> src, dst |-> dst]
LaneSeg(n) == <<"Lane", n>>
TurnSeg(t) == <<"Turn", t>>

\* An empty HashMap.
EmptyMap == [k \in {} |-> <<>>]

\* HashMap::insert.
MapInsert(m, k, v) == [x \in (DOMAIN m) \cup {k} |-> IF x = k THEN v ELSE m[x]]

----------------------------------------------------------------------------
(* AgentCache *)

has_ignoring_tick(cache, tick, on) ==
    on \in DOMAIN cache.agents_per_on

\* AgentCache::has
has(cache, tick, on) ==
    IF Some(tick) # cache.tick
    THEN FALSE
    ELSE on \in DOMAIN cache.agents_per_on

\* AgentCache::get: indexing a HashMap with a missing key panics.
get(cache, on) ==
    IF on \in DOMAIN cache.agents_per_on
    THEN [panic |-> FALSE, list |-> cache.agents_per_on[on]]
    ELSE [panic |-> TRUE, list |-> <<>>]

put_without_clear(cache, tick, on, list) ==
    IF on \in DOMAIN cache.agents_per_on
    THEN [panic |-> TRUE, cache |-> cache]
    ELSE [panic |-> FALSE,
          cache |-> [tick |-> Some(tick),
                     agents_per_on |-> MapInsert(cache.agents_per_on, on, list)]]

put_overwriting(cache, tick, on, list) ==
    LET cleared == IF Some(tick) # cache.tick
                   THEN [tick |-> Some(tick), agents_per_on |-> EmptyMap]
                   ELSE cache
    IN  [panic |-> FALSE,
         cache |-> [cleared EXCEPT !.agents_per_on = MapInsert(@, on, list)]]

put_always_clearing(cache, tick, on, list) ==
    IF Some(tick) = cache.tick /\ on \in DOMAIN cache.agents_per_on
    THEN [panic |-> TRUE, cache |-> cache]
    ELSE [panic |-> FALSE,
          cache |-> [tick |-> Some(tick), agents_per_on |-> MapInsert(EmptyMap, on, list)]]

\* AgentCache::put. The assertion can only fail when the tick is unchanged (a
\* changed tick has just emptied the map), so a failing put leaves the cache as
\* it was.
put(cache, tick, on, list) ==
    LET cleared == IF Some(tick) # cache.tick
                   THEN [tick |-> Some(tick), agents_per_on |-> EmptyMap]
                   ELSE cache
    IN  IF on \in DOMAIN cleared.agents_per_on
        THEN [panic |-> TRUE, cache |-> cache]
        ELSE [panic |-> FALSE,
              cache |-> [cleared EXCEPT !.agents_per_on = MapInsert(@, on, list)]]

\* The cache DrawMap::new creates.
NewAgentCache == [tick |-> None, agents_per_on |-> EmptyMap]

----------------------------------------------------------------------------
(* Sequences. *)

\* slice::sort_by_key, a stable sort: s ordered by keys (keys[i] is the key of
\* s[i]), elements of equal key in their order in s.
sort_by_key(s, keys) ==
    LET n == Len(s)
        before(j, i) == keys[j] < keys[i] \/ (keys[j] = keys[i] /\ j < i)
        pos(i) == 1 + Cardinality({j \in 1..n : before(j, i)})
    IN  [p \in 1..n |-> s[CHOOSE i \in 1..n : pos(i) = p]]

\* Vec::reverse
reverse(s) == [i \in 1..Len(s) |-> s[Len(s) + 1 - i]]

\* The positions of s whose element satisfies the test, as a sequence of
\* elements: Iterator::filter(..).collect().
RECURSIVE FilterIn(_, _)
FilterIn(s, keep) ==
    IF s = <<>> THEN <<>>
    ELSE (IF Head(s) \in keep THEN <<Head(s)>> ELSE <<>>) \o FilterIn(Tail(s), keep)

\* The elements of a sequence.
Range(s) == {s[i] : i \in 1..Len(s)}

----------------------------------------------------------------------------
(* The map (map_model::Map) and the flags, as DrawMap::new reads them. *)

\* A turn's angle().normalized_degrees() is a real number; the model keeps it in
\* half degrees, so that two angles can differ within one whole degree.
Turn(id, half_degrees) == [id |-> id, angle |-> half_degrees]

\* Turn::angle().normalized_degrees() as i64: the cast truncates.
angle_key(t) == t.angle \div 2

\* Each map of SpecBuild has 0..MaxStatic buildings, parcels, areas and bus stops.
MaxStatic == 1

\* No roads at all.
NetEmpty == [lanes |-> <<>>, intersections |-> <<>>, turns |-> <<>>]

\* Lane 0 ends at intersection 0, where it turns into lane 1 or lane 2; these
\* end at intersection 1, a dead end.
NetMain ==
    [lanes |-> <<[id |-> 0, dst_i |-> 0], [id |-> 1, dst_i |-> 1], [id |-> 2, dst_i |-> 1]>>,
     intersections |-> <<[id |-> 0, turns |-> <<TurnID(0, 0, 1), TurnID(0, 0, 2)>>],
                         [id |-> 1, turns |-> <<>>]>>,
     turns |-> <<Turn(TurnID(0, 0, 1), 181), Turn(TurnID(0, 0, 2), 20)>>]

\* A map: a road network, and so many buildings, parcels, areas and bus stops
\* (each numbered from 0).
MakeMap(net, nb, np, na, nbs) ==
    [lanes |-> net.lanes, intersections |-> net.intersections, turns |-> net.turns,
     buildings |-> nb, parcels |-> np, areas |-> na, bus_stops |-> nbs]

\* Map::get_turns_from_lane
get_turns_from_lane(m, l) ==
    FilterIn(m.turns, {t \in Range(m.turns) : t.id.src = l})

\* Flags: draw_parcels, and kml: None, or Some(path) with what loading the path
\* gives: ok (or the load fails), and for each raw shape whether
\* DrawExtraShape::new makes a drawable of it.
MakeFlags(draw_parcels, kml) == [draw_parcels |-> draw_parcels, kml |-> kml]
KmlFile(ok, shapes) == [ok |-> ok, shapes |-> shapes]

----------------------------------------------------------------------------
(* DrawMap::new *)

\* Renderable::get_bounds of a static drawable, as the set of the cells of a
\* two-cell world it touches: intersections and areas span both cells.
get_bounds(id) ==
    IF id[1] \in {"Intersection", "Area"} THEN {0, 1} ELSE {id[2] % 2}

\* The drawables numbered 0..n-1 of one category, in order (each stands for
\* its get_id()).
Drawables(cat, n) == [i \in 1..n |-> <<cat, i - 1>>]

offsets_numbered_across_groups(result, l, m) ==
    LET all == get_turns_from_lane(m, l.id)
        g0 == FilterIn(all, {t \in Range(all) : t.id.parent = l.dst_i})
        g1 == FilterIn(all, {t \in Range(all) : t.id.parent # l.dst_i})
        s0 == sort_by_key(g0, [i \in 1..Len(g0) |-> angle_key(g0[i])])
        s1 == sort_by_key(g1, [i \in 1..Len(g1) |-> angle_key(g1[i])])
        both == s0 \o s1
    IN  [tid \in (DOMAIN result) \cup {t.id : t \in Range(all)} |->
            IF \E i \in 1..Len(both) : both[i].id = tid
            THEN (CHOOSE i \in 1..Len(both) : both[i].id = tid) - 1
            ELSE result[tid]]

offsets_without_sort(result, l, m) ==
    LET all == get_turns_from_lane(m, l.id)
        g0 == FilterIn(all, {t \in Range(all) : t.id.parent = l.dst_i})
        g1 == FilterIn(all, {t \in Range(all) : t.id.parent # l.dst_i})
        idx(g, tid) == (CHOOSE i \in 1..Len(g) : g[i].id = tid) - 1
    IN  [tid \in (DOMAIN result) \cup {t.id : t \in Range(all)} |->
            IF \E i \in 1..Len(g1) : g1[i].id = tid THEN idx(g1, tid)
            ELSE IF \E i \in 1..Len(g0) : g0[i].id = tid THEN idx(g0, tid)
            ELSE result[tid]]

\* DrawMap::compute_turn_to_lane_offset: result with the offsets of lane l's
\* turns inserted.
compute_turn_to_lane_offset(result, l, m) ==
    LET all == get_turns_from_lane(m, l.id)
        g0 == FilterIn(all, {t \in Range(all) : t.id.parent = l.dst_i})
        g1 == FilterIn(all, {t \in Range(all) : t.id.parent # l.dst_i})
        s0 == sort_by_key(g0, [i \in 1..Len(g0) |-> angle_key(g0[i])])
        s1 == sort_by_key(g1, [i \in 1..Len(g1) |-> angle_key(g1[i])])
        idx(sorted, tid) == (CHOOSE i \in 1..Len(sorted) : sorted[i].id = tid) - 1
    IN  [tid \in (DOMAIN result) \cup {t.id : t \in Range(all)} |->
            IF \E i \in 1..Len(s1) : s1[i].id = tid THEN idx(s1, tid)
            ELSE IF \E i \in 1..Len(s0) : s0[i].id = tid THEN idx(s0, tid)
            ELSE result[tid]]

\* The loop of DrawMap::new over map.all_lanes().
RECURSIVE all_turn_offsets(_, _, _)
all_turn_offsets(result, ls, m) ==
    IF ls = <<>> THEN result
    ELSE all_turn_offsets(compute_turn_to_lane_offset(result, Head(ls), m), Tail(ls), m)

\* The extra shapes DrawMap::new keeps: a shape DrawExtraShape::new refuses is
\* dropped, and the next one takes ExtraShapeID(extra_shapes.len()).
RECURSIVE make_extra_shapes(_, _)
make_extra_shapes(raw, sofar) ==
    IF raw = <<>> THEN sofar
    ELSE make_extra_shapes(Tail(raw),
            IF Head(raw) THEN Append(sofar, <<"ExtraShape", Len(sofar)>>) ELSE sofar)

\* QuadTree::insert_with_box for each drawable of a sequence.
insert_all(quadtree, objs) ==
    quadtree \o [i \in 1..Len(objs) |-> [id |-> objs[i], bbox |-> get_bounds(objs[i])]]

quadtree_without_areas(lanes, intersections, turn_ids, buildings, parcels, extra_shapes, bus_stops, areas) ==
    insert_all(insert_all(insert_all(insert_all(insert_all(insert_all(<<>>,
        lanes), intersections), buildings), parcels), extra_shapes), bus_stops)

\* The quadtree DrawMap::new fills: lanes, intersections, buildings, parcels,
\* extra shapes, bus stops, areas. The turns are not inserted.
create_quadtree(lanes, intersections, turn_ids, buildings, parcels, extra_shapes, bus_stops, areas) ==
    insert_all(insert_all(insert_all(insert_all(insert_all(insert_all(insert_all(<<>>,
        lanes), intersections), buildings), parcels), extra_shapes), bus_stops), areas)

\* DrawMap::new. bus_order is the order in which the HashMap of bus stops
\* yields its values. The result: panic, or the DrawMap's static part.
new(m, f, bus_order) ==
    LET lanes == Drawables("Lane", Len(m.lanes))
        offsets == all_turn_offsets(EmptyMap, m.lanes, m)
        turn_ids == [i \in 1..Len(m.turns) |-> <<"Turn", m.turns[i].id>>]
        turns == [tid \in {t.id : t \in Range(m.turns)} |->
                     [id |-> <<"Turn", tid>>, offset |-> offsets[tid]]]
        intersections == Drawables("Intersection", Len(m.intersections))
        buildings == Drawables("Building", m.buildings)
        parcels == IF f.draw_parcels THEN Drawables("Parcel", m.parcels) ELSE <<>>
        extra_shapes == IF f.kml = None THEN <<>>
                        ELSE make_extra_shapes(f.kml[1].shapes, <<>>)
        bus_stops == [i \in 1..Len(bus_order) |-> <<"BusStop", bus_order[i]>>]
        areas == Drawables("Area", m.areas)
    IN  IF Cardinality(DOMAIN offsets) # Len(m.turns) THEN [panic |-> TRUE]
        ELSE IF f.kml # None /\ ~f.kml[1].ok THEN [panic |-> TRUE]
        ELSE [panic |-> FALSE,
              lanes |-> lanes, intersections |-> intersections, turns |-> turns,
              buildings |-> buildings, parcels |-> parcels,
              extra_shapes |-> extra_shapes, bus_stops |-> Range(bus_stops),
              areas |-> areas,
              quadtree |-> create_quadtree(lanes, intersections, turn_ids, buildings,
                                           parcels, extra_shapes, bus_stops, areas)]

\* The orders in which a HashMap holding keys 0..n-1 may yield them.
Orders(n) == {o \in [1..n -> 0..(n - 1)] : \A i, j \in 1..n : i # j => o[i] # o[j]}

----------------------------------------------------------------------------
(* SpecCache: the AgentCache called directly, with any arguments. *)

\* The segments and drawable lists SpecCache passes to the cache.
ApiSegs == {LaneSeg(0), LaneSeg(1), TurnSeg(TurnID(0, 0, 1))}
ApiLists == {<<"x">>, <<"x", "y">>}

NoOp == [op |-> "none"]

\* No pass of handle_objects has run.
NoPass ==
    /\ arg = <<>>
    /\ todo = <<>>
    /\ buckets = <<>>
    /\ agents_on = <<>>
    /\ borrows = <<>>
    /\ delivered = <<>>
    /\ aborted = FALSE
    /\ passes = 0
    /\ asked = EmptyMap
    /\ run_asked = EmptyMap
    /\ prev = <<>>

InitCache ==
    /\ agents = NewAgentCache
    /\ borrow = 0
    /\ panicked = FALSE
    /\ putLog = <<>>
    /\ lastOp = NoOp
    /\ map = <<>>
    /\ flags = <<>>
    /\ dm = <<>>
    /\ pc = "cache"
    /\ NoPass

ApiHas(tick, on) ==
    /\ pc = "cache" /\ ~panicked
    /\ lastOp' = [op |-> "has", tick |-> tick, on |-> on, ret |-> has(agents, tick, on)]
    /\ UNCHANGED <<agents, borrow, panicked, putLog, buildVars, pc, passVars>>

ApiGet(on) ==
    /\ pc = "cache" /\ ~panicked
    /\ LET r == get(agents, on) IN
        /\ lastOp' = [op |-> "get", on |-> on, ret |-> r.list, panic |-> r.panic]
        /\ panicked' = r.panic
    /\ UNCHANGED <<agents, borrow, putLog, buildVars, pc, passVars>>

ApiPut(tick, on, list) ==
    /\ pc = "cache" /\ ~panicked
    /\ Len(putLog) < MaxPuts
    /\ LET r == put(agents, tick, on, list) IN
        /\ agents' = r.cache
        /\ panicked' = r.panic
        /\ putLog' = IF r.panic THEN putLog
                     ELSE Append(putLog, [tick |-> tick, on |-> on, list |-> list])
        /\ lastOp' = [op |-> "put", tick |-> tick, on |-> on, list |-> list,
                      panic |-> r.panic]
    /\ UNCHANGED <<borrow, buildVars, pc, passVars>>

NextCache ==
    \/ \E tick \in Ticks, on \in ApiSegs : ApiHas(tick, on)
    \/ \E on \in ApiSegs : ApiGet(on)
    \/ \E tick \in Ticks, on \in ApiSegs, list \in ApiLists : ApiPut(tick, on, list)

SpecCache == InitCache /\ [][NextCache]_vars

----------------------------------------------------------------------------
(* Claims about the AgentCache, checked under SpecCache. *)

\* What the history of puts says the cache should answer: some put of (tick, on)
\* returned, and no put since then carried another tick.
PutSinceTickChange(tick, on) ==
    \E i \in 1..Len(putLog) :
        /\ putLog[i].tick = tick
        /\ putLog[i].on = on
        /\ \A j \in i..Len(putLog) : putLog[j].tick = tick

\* C2: after any sequence of puts, has(tick, on) is true exactly when the cache's
\* current tick (the tick of the latest put) is tick and on was put since that
\* tick was adopted; so it is false before the first put and false for every
\* tick other than the current one.
C2_HasIffCurrentTickAndEntry ==
    /\ \A tick \in Ticks, on \in ApiSegs :
          has(agents, tick, on) <=> PutSinceTickChange(tick, on)
    /\ lastOp.op = "has" => (lastOp.ret <=> PutSinceTickChange(lastOp.tick, lastOp.on))
    /\ putLog = <<>> => \A tick \in Ticks, on \in ApiSegs : ~has(agents, tick, on)

\* C2 witness: has answered false for a segment that has an entry, because the
\* tick asked for is not the current one.
C2_Witness ==
    /\ lastOp.op = "has"
    /\ ~lastOp.ret
    /\ lastOp.on \in DOMAIN agents.agents_per_on
    /\ agents.tick # None

C3_OneTick ==
    /\ agents.tick = IF putLog = <<>> THEN None ELSE Some(putLog[Len(putLog)].tick)
    /\ \A on \in DOMAIN agents.agents_per_on :
          \E i \in 1..Len(putLog) :
              /\ putLog[i].on = on
              /\ Some(putLog[i].tick) = agents.tick
              /\ agents.agents_per_on[on] = putLog[i].list
              /\ \A j \in i..Len(putLog) : Some(putLog[j].tick) = agents.tick

C3_PutStep ==
    putLog' # putLog =>
        LET e == putLog'[Len(putLog')] IN
        IF Some(e.tick) # agents.tick
        THEN /\ agents'.tick = Some(e.tick)
             /\ DOMAIN agents'.agents_per_on = {e.on}
             /\ agents'.agents_per_on[e.on] = e.list
        ELSE /\ agents'.tick = agents.tick
             /\ DOMAIN agents'.agents_per_on = (DOMAIN agents.agents_per_on) \cup {e.on}
             /\ agents'.agents_per_on[e.on] = e.list
             /\ \A on \in DOMAIN agents.agents_per_on :
                   agents'.agents_per_on[on] = agents.agents_per_on[on]

\* C3: the cache holds entries of one tick only (every entry was put under the
\* current tick, with no put of another tick since); a put with another tick
\* leaves exactly its own entry under the new current tick, and a put with the
\* current tick adds its entry and leaves the others as they were.
C3_SingleTickAndPutEffect == []C3_OneTick /\ [][C3_PutStep]_vars

\* C3 witness: a put with a new tick has just replaced two entries by one.
C3_Witness ==
    /\ Len(putLog) = 3
    /\ putLog[1].tick = putLog[2].tick
    /\ putLog[1].on # putLog[2].on
    /\ putLog[3].tick # putLog[2].tick
    /\ DOMAIN agents.agents_per_on = {putLog[3].on}

C4_NoSecondPut ==
    \A i, j \in 1..Len(putLog) :
        (i < j /\ putLog[i].on = putLog[j].on) =>
            \E k \in (i + 1)..j : putLog[k].tick # putLog[i].tick

C4_PutStep ==
    lastOp'.op = "put" =>
        /\ (agents.tick = Some(lastOp'.tick) /\ lastOp'.on \in DOMAIN agents.agents_per_on)
              => (panicked' /\ lastOp'.panic /\ agents' = agents /\ putLog' = putLog)
        /\ agents'.tick = agents.tick =>
              \A on \in DOMAIN agents.agents_per_on :
                  /\ on \in DOMAIN agents'.agents_per_on
                  /\ agents'.agents_per_on[on] = agents.agents_per_on[on]

\* C4: a put for a segment that already has an entry under the current tick
\* panics and changes nothing; no entry is ever overwritten while the tick
\* stays; and of two puts of one segment that returned, the later one came
\* after (or was itself) a put with a different tick.
C4_DuplicatePutPanics == []C4_NoSecondPut /\ [][C4_PutStep]_vars

\* C4 witness: the assertion of put has fired on a cache holding the segment.
C4_Witness ==
    /\ panicked
    /\ lastOp.op = "put"
    /\ lastOp.panic
    /\ lastOp.on \in DOMAIN agents.agents_per_on
    /\ agents.tick = Some(lastOp.tick)

----------------------------------------------------------------------------
(* SpecBuild: DrawMap::new over a family of maps and flags. *)

Maps ==
    {MakeMap(net, nb, np, na, nbs) :
        net \in {NetEmpty, NetMain},
        nb \in 0..MaxStatic, np \in 0..MaxStatic, na \in 0..MaxStatic, nbs \in 0..MaxStatic}

FlagChoices ==
    {MakeFlags(dp, kml) :
        dp \in BOOLEAN,
        kml \in {None,
                 Some(KmlFile(FALSE, <<>>)),
                 Some(KmlFile(TRUE, <<TRUE>>)),
                 Some(KmlFile(TRUE, <<FALSE, TRUE>>))}}

InitBuild ==
    /\ map \in Maps
    /\ flags \in FlagChoices
    /\ dm = <<>>
    /\ pc = "new"
    /\ agents = NewAgentCache
    /\ borrow = 0
    /\ panicked = FALSE
    /\ putLog = <<>>
    /\ lastOp = NoOp
    /\ NoPass

\* DrawMap::new(map, flags, ..)
New ==
    /\ pc = "new" /\ ~panicked
    /\ \E bus_order \in Orders(map.bus_stops) :
          LET r == new(map, flags, bus_order) IN
          IF r.panic
          THEN panicked' = TRUE /\ UNCHANGED <<dm, pc>>
          ELSE panicked' = FALSE /\ dm' = r /\ pc' = "built"
    /\ agents' = NewAgentCache
    /\ borrow' = 0
    /\ UNCHANGED <<putLog, lastOp, map, flags, passVars>>

NextBuild == New

SpecBuild == InitBuild /\ [][NextBuild]_vars

\* The static drawables a DrawMap holds, by identifier.
IndexedDrawables(d) ==
    Range(d.lanes) \cup Range(d.intersections) \cup Range(d.buildings)
        \cup Range(d.parcels) \cup Range(d.extra_shapes) \cup d.bus_stops
        \cup Range(d.areas)
TurnDrawables(d) == {d.turns[tid].id : tid \in DOMAIN d.turns}

\* The entries of the quadtree for one identifier.
EntriesOf(d, id) == {i \in 1..Len(d.quadtree) : d.quadtree[i].id = id}

\* C9 as stated: after new, every static drawable of every category, the turns
\* included, has exactly one entry in the quadtree.
C9_EveryDrawableIndexedOnce ==
    pc = "built" =>
        \A id \in IndexedDrawables(dm) \cup TurnDrawables(dm) :
            Cardinality(EntriesOf(dm, id)) = 1

\* C9 amended: after new, the quadtree holds exactly one entry, with its
\* bounding box, for every lane, intersection, building, parcel, extra shape,
\* bus stop and area that was constructed, nothing else, and no entry for
\* any turn.
C9_EveryDrawableButTurnsIndexedOnce ==
    pc = "built" =>
        /\ \A id \in IndexedDrawables(dm) :
              /\ Cardinality(EntriesOf(dm, id)) = 1
              /\ \A i \in EntriesOf(dm, id) : dm.quadtree[i].bbox = get_bounds(id)
        /\ \A i \in 1..Len(dm.quadtree) : dm.quadtree[i].id \in IndexedDrawables(dm)
        /\ \A id \in TurnDrawables(dm) : EntriesOf(dm, id) = {}
        /\ Len(dm.lanes) = Len(map.lanes)
        /\ Len(dm.intersections) = Len(map.intersections)
        /\ Len(dm.buildings) = map.buildings
        /\ Len(dm.areas) = map.areas
        /\ Cardinality(dm.bus_stops) = map.bus_stops
        /\ Len(dm.parcels) = IF flags.draw_parcels THEN map.parcels ELSE 0

\* C9 witness: a DrawMap built with drawables of all eight categories.
C9_Witness ==
    /\ pc = "built"
    /\ DOMAIN dm.turns # {}
    /\ dm.lanes # <<>> /\ dm.intersections # <<>> /\ dm.buildings # <<>>
    /\ dm.parcels # <<>> /\ dm.extra_shapes # <<>> /\ dm.bus_stops # {}
    /\ dm.areas # <<>>

----------------------------------------------------------------------------
(* SpecOffsets: DrawMap::new over road networks whose turns, in any        *)
(* iteration order and with any of a few angles, leave lane 0 towards its  *)
(* destination intersection 0 or back through intersection 1, where it     *)
(* starts, or leave lane 1.                                                *)

\* A map has at most MaxTurns turns.
MaxTurns == 3

\* normalized_degrees() of a turn, in half degrees: 10, 10.5 and 90.5 degrees.
Angles == {20, 21, 181}

CandidateTurns ==
    {TurnID(0, 0, 1), TurnID(0, 0, 2), TurnID(0, 0, 3), TurnID(1, 0, 1), TurnID(1, 1, 2)}

\* The turns of an intersection, as Intersection::turns lists them.
TurnsAt(turns, i) ==
    LET f == FilterIn(turns, {t \in Range(turns) : t.id.parent = i})
    IN  [k \in 1..Len(f) |-> f[k].id]

\* The road network with these turns: four lanes, lane 0 running from
\* intersection 1 to intersection 0, the others ending at intersection 1.
NetOf(turns) ==
    [lanes |-> <<[id |-> 0, dst_i |-> 0], [id |-> 1, dst_i |-> 1],
                 [id |-> 2, dst_i |-> 1], [id |-> 3, dst_i |-> 1]>>,
     intersections |-> <<[id |-> 0, turns |-> TurnsAt(turns, 0)],
                         [id |-> 1, turns |-> TurnsAt(turns, 1)]>>,
     turns |-> turns]

\* The sequences of n turns of distinct ids.
TurnSeqs(n) ==
    {s \in [1..n -> {Turn(id, a) : id \in CandidateTurns, a \in Angles}] :
        \A i, j \in 1..n : i # j => s[i].id # s[j].id}

OffsetMaps ==
    {MakeMap(NetOf(s), 0, 0, 0, 0) : s \in UNION {TurnSeqs(n) : n \in 0..MaxTurns}}

InitOffsets ==
    /\ map \in OffsetMaps
    /\ flags = MakeFlags(FALSE, None)
    /\ dm = <<>>
    /\ pc = "new"
    /\ agents = NewAgentCache
    /\ borrow = 0
    /\ panicked = FALSE
    /\ putLog = <<>>
    /\ lastOp = NoOp
    /\ NoPass

NextOffsets == New

SpecOffsets == InitOffsets /\ [][NextOffsets]_vars

\* The turns of lane l in one of its two groups, in iteration order: near is
\* the group of the turns at the lane's destination intersection.
GroupOf(m, l, near) ==
    LET all == get_turns_from_lane(m, l.id)
    IN  FilterIn(all, {t \in Range(all) : (t.id.parent = l.dst_i) = near})

\* The offset the DrawTurn of a turn holds.
OffsetOf(d, t) == d.turns[t.id].offset

\* C11: after new, for every lane and each of its two groups of turns, the
\* offsets of the group's turns are pairwise distinct and are exactly
\* 0..n-1, n the size of the group, whatever the other group holds.
C11_OffsetsDenseFromZeroPerGroup ==
    pc = "built" =>
        \A l \in Range(map.lanes), near \in BOOLEAN :
            LET g == GroupOf(map, l, near) IN
            /\ {OffsetOf(dm, t) : t \in Range(g)} = 0..(Len(g) - 1)
            /\ \A i, j \in 1..Len(g) : i # j => OffsetOf(dm, g[i]) # OffsetOf(dm, g[j])

\* C11 witness: a DrawMap built for a lane with two turns in one group and
\* one in the other.
C11_Witness ==
    /\ pc = "built"
    /\ \E l \in Range(map.lanes) :
          /\ Len(GroupOf(map, l, TRUE)) = 2
          /\ Len(GroupOf(map, l, FALSE)) = 1

\* C12 as stated: within a group a smaller angle has a smaller offset, and
\* turns of equal angle are numbered in iteration order.
C12_OffsetsAscendWithAngle ==
    pc = "built" =>
        \A l \in Range(map.lanes), near \in BOOLEAN :
            LET g == GroupOf(map, l, near) IN
            \A i, j \in 1..Len(g) :
                /\ g[i].angle < g[j].angle => OffsetOf(dm, g[i]) < OffsetOf(dm, g[j])
                /\ g[i].angle = g[j].angle /\ i < j =>
                      OffsetOf(dm, g[i]) < OffsetOf(dm, g[j])

\* The whole degrees of a turn's angle.
WholeDegrees(t) == t.angle \div 2

\* C12 amended: within a group a turn of fewer whole degrees has a smaller
\* offset, and turns of the same whole degrees (of equal angle or of angles
\* within one degree) are numbered in iteration order.
C12_OffsetsAscendWithWholeDegrees ==
    pc = "built" =>
        \A l \in Range(map.lanes), near \in BOOLEAN :
            LET g == GroupOf(map, l, near) IN
            \A i, j \in 1..Len(g) :
                /\ WholeDegrees(g[i]) < WholeDegrees(g[j]) =>
                      OffsetOf(dm, g[i]) < OffsetOf(dm, g[j])
                /\ WholeDegrees(g[i]) = WholeDegrees(g[j]) /\ i < j =>
                      OffsetOf(dm, g[i]) < OffsetOf(dm, g[j])

\* C12 witness: a DrawMap built for a group of three turns, the first in
\* iteration order of 90.5 degrees, then one of 10.5 and one of 10 degrees.
C12_Witness ==
    /\ pc = "built"
    /\ \E l \in Range(map.lanes) :
          LET g == GroupOf(map, l, TRUE) IN
          /\ Len(g) = 3
          /\ g[1].angle = 181 /\ g[2].angle = 21 /\ g[3].angle = 20
          /\ OffsetOf(dm, g[1]) = 2 /\ OffsetOf(dm, g[2]) = 0 /\ OffsetOf(dm, g[3]) = 1

----------------------------------------------------------------------------
(* SpecEdit: DrawMap::new, then edit_add_turn and edit_remove_turn, each   *)
(* after the map has gained or lost the turn.                              *)

\* DrawMap::edit_remove_turn: HashMap::remove.
edit_remove_turn(d, id) ==
    [d EXCEPT !.turns = [tid \in (DOMAIN d.turns) \ {id} |-> d.turns[tid]]]

\* DrawMap::edit_add_turn: map.get_t and the index into the fresh offsets
\* panic on a missing turn; the new DrawTurn gets the offset computed for it
\* and the other DrawTurns stay as they are.
edit_add_turn(d, id, m) ==
    LET turn_to_lane_offset ==
            compute_turn_to_lane_offset(EmptyMap, m.lanes[id.src + 1], m)
    IN  IF id \notin {t.id : t \in Range(m.turns)} \/ id \notin DOMAIN turn_to_lane_offset
        THEN [panic |-> TRUE]
        ELSE [d EXCEPT !.turns = MapInsert(@, id, [id |-> <<"Turn", id>>,
                                                  offset |-> turn_to_lane_offset[id]])]

\* The map with one more turn, at place p of its iteration order, or with
\* one turn less.
MapAddTurn(m, t, p) ==
    LET turns == SubSeq(m.turns, 1, p) \o <<t>> \o SubSeq(m.turns, p + 1, Len(m.turns))
    IN  [m EXCEPT !.turns = turns, !.intersections = NetOf(turns).intersections]
MapRemoveTurn(m, id) ==
    LET turns == FilterIn(m.turns, {t \in Range(m.turns) : t.id # id})
    IN  [m EXCEPT !.turns = turns, !.intersections = NetOf(turns).intersections]

EditAddTurn(t, p) ==
    /\ pc \in {"built", "edited"} /\ ~panicked
    /\ Len(map.turns) < MaxTurns
    /\ t.id \notin {u.id : u \in Range(map.turns)}
    /\ p \in 0..Len(map.turns)
    /\ map' = MapAddTurn(map, t, p)
    /\ LET r == edit_add_turn(dm, t.id, map') IN
       IF r.panic
       THEN panicked' = TRUE /\ UNCHANGED <<dm, pc>>
       ELSE panicked' = FALSE /\ dm' = r /\ pc' = "edited"
    /\ UNCHANGED <<agents, borrow, putLog, lastOp, flags, passVars>>

EditRemoveTurn(id) ==
    /\ pc \in {"built", "edited"} /\ ~panicked
    /\ id \in {u.id : u \in Range(map.turns)}
    /\ map' = MapRemoveTurn(map, id)
    /\ dm' = edit_remove_turn(dm, id)
    /\ pc' = "edited"
    /\ UNCHANGED <<agents, borrow, panicked, putLog, lastOp, flags, passVars>>

NextEdit ==
    \/ New
    \/ \E t \in {Turn(id, a) : id \in CandidateTurns, a \in Angles}, p \in 0..MaxTurns :
          EditAddTurn(t, p)
    \/ \E id \in CandidateTurns : EditRemoveTurn(id)

SpecEdit == InitOffsets /\ [][NextEdit]_vars

\* C14: after new and after any edit_add_turn or edit_remove_turn that
\* follows the map, the DrawTurns are those of the map's turns, and within
\* each group of a lane their offsets are pairwise distinct and 0..n-1.
C14_OffsetsDenseAfterEdits ==
    pc \in {"built", "edited"} =>
        /\ DOMAIN dm.turns = {t.id : t \in Range(map.turns)}
        /\ \A l \in Range(map.lanes), near \in BOOLEAN :
              LET g == GroupOf(map, l, near) IN
              /\ \A i, j \in 1..Len(g) : i # j => OffsetOf(dm, g[i]) # OffsetOf(dm, g[j])
              /\ {OffsetOf(dm, t) : t \in Range(g)} = 0..(Len(g) - 1)

----------------------------------------------------------------------------
(* The collaborators of handle_objects. *)

\* A Renderable, by its get_id(). A dynamic one also carries, as history, the
\* segment it was built for and the tick sim reported when it was built.
StaticR(id) == [id |-> id, on |-> <<>>, tick |-> None]
DynamicR(kind, n, on, tick) == [id |-> <<kind, n>>, on |-> on, tick |-> Some(tick)]

\* GetDrawAgents::get_draw_cars: the cars sim reports on a segment at a tick.
get_draw_cars(tick, on) ==
    IF on = LaneSeg(0) THEN <<0, 1>>
    ELSE IF on[1] = "Turn" /\ tick % 2 = 1 THEN <<2>>
    ELSE <<>>

\* GetDrawAgents::get_draw_peds
get_draw_peds(tick, on) ==
    IF on = LaneSeg(1) THEN <<0>>
    ELSE IF on[1] = "Turn" /\ on[2].dst = 1 THEN <<1>>
    ELSE <<>>

\* Renderable::get_zorder
get_zorder(r) ==
    LET cat == r.id[1] IN
    IF cat \in {"Area", "Parcel", "Building", "BusStop"} THEN 0
    ELSE IF cat = "Lane" THEN r.id[2] % 2
    ELSE IF cat = "Intersection" THEN 1 - (r.id[2] % 2)
    ELSE IF cat = "Car" THEN r.id[2] % 2
    ELSE 1

\* QuadTree::query: the ids whose box meets the bounds, in insertion order.
RECURSIVE query(_, _)
query(quadtree, bounds) ==
    IF quadtree = <<>> THEN <<>>
    ELSE (IF Head(quadtree).bbox \cap bounds # {} THEN <<Head(quadtree).id>> ELSE <<>>)
            \o query(Tail(quadtree), bounds)

\* ShowObjects::show and ShowObjects::show_icons_for: a policy is the set of
\* ids it hides and the set of intersections it shows icons for.
show(a, id) == id \notin a.hidden
show_icons_for(a, i) == i \in a.icons

----------------------------------------------------------------------------
(* DrawMap::handle_objects *)

EmptyBuckets ==
    [areas |-> <<>>, parcels |-> <<>>, lanes |-> <<>>, intersections |-> <<>>,
     buildings |-> <<>>, extra_shapes |-> <<>>, bus_stops |-> <<>>, turn_icons |-> <<>>]

\* One more question to sim about cars and about peds for key k.
CountAsk(log, k) ==
    MapInsert(log, k,
        IF k \in DOMAIN log
        THEN [cars |-> log[k].cars + 1, peds |-> log[k].peds + 1]
        ELSE [cars |-> 1, peds |-> 1])

\* The list built from sim for a segment (lines 306-312): cars, then peds.
build_list(tick, on) ==
    LET cars == get_draw_cars(tick, on)
        peds == get_draw_peds(tick, on)
    IN  [i \in 1..Len(cars) |-> DynamicR("Car", cars[i], on, tick)]
            \o [i \in 1..Len(peds) |-> DynamicR("Pedestrian", peds[i], on, tick)]

borrow_kept(b) == b

\* The Ref that RefCell::borrow returned is dropped: the temporary of the
\* condition of line 305 at the end of the condition.
end_of_borrow(b) == b - 1

ensure_recording_only_when_put(st, tick, on) ==
    IF st.panic THEN st
    ELSE IF has(st.agents, tick, on) THEN st
    ELSE LET r == put(st.agents, tick, on, build_list(tick, on))
         IN  [st EXCEPT !.agents = r.cache,
                        !.panic = r.panic,
                        !.asked = CountAsk(@, <<on, tick>>),
                        !.run_asked = CountAsk(@, on),
                        !.agents_on = IF r.panic THEN @ ELSE Append(@, on)]

ensure_without_has(st, tick, on) ==
    IF st.panic THEN st
    ELSE LET r == put(st.agents, tick, on, build_list(tick, on))
         IN  [st EXCEPT !.agents = r.cache,
                        !.panic = r.panic,
                        !.asked = CountAsk(@, <<on, tick>>),
                        !.run_asked = CountAsk(@, on),
                        !.agents_on = IF r.panic THEN @ ELSE Append(@, on)]

ensure_always_asking(st, tick, on) ==
    LET r == put_overwriting(st.agents, tick, on, build_list(tick, on))
    IN  [st EXCEPT !.agents = r.cache,
                   !.asked = CountAsk(@, <<on, tick>>),
                   !.run_asked = CountAsk(@, on),
                   !.agents_on = Append(@, on)]

\* Lines 305-315 and 325-335: populate the cache for a segment unless it has
\* it, and record the segment. RefCell::borrow panics while the cell is
\* mutably borrowed, RefCell::borrow_mut while it is borrowed at all.
ensure(st, tick, on) ==
    IF st.panic THEN st
    ELSE IF st.borrow < 0 THEN [st EXCEPT !.panic = TRUE]
    ELSE IF has(st.agents, tick, on) THEN [st EXCEPT !.agents_on = Append(@, on)]
    ELSE IF end_of_borrow(st.borrow + 1) # 0 THEN [st EXCEPT !.panic = TRUE]
    ELSE LET r == put(st.agents, tick, on, build_list(tick, on))
         IN  [st EXCEPT !.agents = r.cache,
                        !.panic = r.panic,
                        !.asked = CountAsk(@, <<on, tick>>),
                        !.run_asked = CountAsk(@, on),
                        !.agents_on = IF r.panic THEN @ ELSE Append(@, on)]

RECURSIVE for_each_turn_icon_and_agents(_, _, _, _, _)
for_each_turn_icon_and_agents(st, a, d, i, turns) ==
    IF turns = <<>> \/ st.panic THEN st
    ELSE LET t == Head(turns)
             st1 == IF show_icons_for(a, i)
                    THEN IF t \in DOMAIN d.turns
                         THEN [st EXCEPT !.buckets.turn_icons = Append(@, StaticR(d.turns[t].id))]
                         ELSE [st EXCEPT !.panic = TRUE]
                    ELSE st
         IN  for_each_turn_icon_and_agents(ensure(st1, a.tick, TurnSeg(t)), a, d, i,
                                           Tail(turns))

\* Lines 320-337: the turns of a visible intersection.
RECURSIVE for_each_turn(_, _, _, _, _)
for_each_turn(st, a, d, i, turns) ==
    IF turns = <<>> \/ st.panic THEN st
    ELSE LET t == Head(turns)
             st1 == IF show_icons_for(a, i)
                    THEN IF t \in DOMAIN d.turns
                         THEN [st EXCEPT !.buckets.turn_icons = Append(@, StaticR(d.turns[t].id))]
                         ELSE [st EXCEPT !.panic = TRUE]
                    ELSE ensure(st, a.tick, TurnSeg(t))
         IN  for_each_turn(st1, a, d, i, Tail(turns))

not_in_quadtree_ignored(st, id) == st

\* Lines 346-348: an id that shouldn't be in the quadtree.
not_in_quadtree(st, id) == [st EXCEPT !.panic = TRUE]

classify_without_show(st, a, m, d, id) ==
    LET cat == id[1]
        n == id[2]
        r == StaticR(id)
    IN  CASE cat = "Area" -> [st EXCEPT !.buckets.areas = Append(@, r)]
          [] cat = "Parcel" -> [st EXCEPT !.buckets.parcels = Append(@, r)]
          [] cat = "Lane" ->
               LET st1 == [st EXCEPT !.buckets.lanes = Append(@, r)]
               IN  IF ~show_icons_for(a, m.lanes[n + 1].dst_i)
                   THEN ensure(st1, a.tick, LaneSeg(n))
                   ELSE st1
          [] cat = "Intersection" ->
               for_each_turn([st EXCEPT !.buckets.intersections = Append(@, r)],
                             a, d, n, m.intersections[n + 1].turns)
          [] cat = "Building" -> [st EXCEPT !.buckets.buildings = Append(@, r)]
          [] cat = "ExtraShape" -> [st EXCEPT !.buckets.extra_shapes = Append(@, r)]
          [] cat = "BusStop" -> [st EXCEPT !.buckets.bus_stops = Append(@, r)]
          [] OTHER -> not_in_quadtree(st, id)

\* Lines 297-350: the body of the loop over the quadtree's answer, for one id.
classify(st, a, m, d, id) ==
    IF ~show(a, id) THEN st
    ELSE LET cat == id[1]
             n == id[2]
             r == StaticR(id)
         IN  CASE cat = "Area" -> [st EXCEPT !.buckets.areas = Append(@, r)]
               [] cat = "Parcel" -> [st EXCEPT !.buckets.parcels = Append(@, r)]
               [] cat = "Lane" ->
                    LET st1 == [st EXCEPT !.buckets.lanes = Append(@, r)]
                    IN  IF ~show_icons_for(a, m.lanes[n + 1].dst_i)
                        THEN ensure(st1, a.tick, LaneSeg(n))
                        ELSE st1
               [] cat = "Intersection" ->
                    for_each_turn([st EXCEPT !.buckets.intersections = Append(@, r)],
                                  a, d, n, m.intersections[n + 1].turns)
               [] cat = "Building" -> [st EXCEPT !.buckets.buildings = Append(@, r)]
               [] cat = "ExtraShape" -> [st EXCEPT !.buckets.extra_shapes = Append(@, r)]
               [] cat = "BusStop" -> [st EXCEPT !.buckets.bus_stops = Append(@, r)]
               [] OTHER -> not_in_quadtree(st, id)

\* Lines 363-367: the cached drawables of the recorded segments.
RECURSIVE collect_agents(_, _)
collect_agents(cache, ons) ==
    IF ons = <<>> THEN [panic |-> FALSE, list |-> <<>>]
    ELSE LET g == get(cache, Head(ons))
             rest == collect_agents(cache, Tail(ons))
         IN  [panic |-> g.panic \/ rest.panic, list |-> g.list \o rest.list]

concat_lanes_first(b) ==
    b.lanes \o b.areas \o b.parcels \o b.intersections \o b.buildings
        \o b.extra_shapes \o b.bus_stops \o b.turn_icons

\* Lines 353-361: the eight buckets, back to front.
concat_buckets(b) ==
    b.areas \o b.parcels \o b.lanes \o b.intersections \o b.buildings
        \o b.extra_shapes \o b.bus_stops \o b.turn_icons

in_order_never_reversed(sorted, order) == sorted

\* Lines 372-374.
in_order(sorted, order) ==
    IF order = "FrontToBack" THEN reverse(sorted) ELSE sorted

\* Lines 353-374: borrows, sorted and in the order asked for.
make_borrows(b, dynamic, order) ==
    LET all == concat_buckets(b) \o dynamic
    IN  in_order(sort_by_key(all, [i \in 1..Len(all) |-> get_zorder(all[i])]), order)

continue_whatever_returned(keep_going, n, len) ==
    IF n = len THEN "done" ELSE "deliver"

\* Lines 376-380: where the loop over borrows goes after the callback has
\* returned keep_going for element n of len.
after_callback(keep_going, n, len) ==
    IF ~keep_going THEN "done"
    ELSE IF n = len THEN "done"
    ELSE "deliver"

----------------------------------------------------------------------------
(* Spec: passes of handle_objects over the DrawMap built for TheMap. *)

TheMap == MakeMap(NetMain, 1, 1, 1, 1)
TheFlags == MakeFlags(TRUE, Some(KmlFile(TRUE, <<TRUE>>)))

\* The screens, the visibility policies and the orders of the passes; a pass
\* reports the first or the last tick.
Screens == {{0}, {0, 1}}
Policies ==
    {[hidden |-> {}, icons |-> {}],
     [hidden |-> {<<"Turn", TurnID(0, 0, 1)>>}, icons |-> {0}],
     [hidden |-> {<<"Intersection", 0>>, <<"Lane", 1>>, <<"Building", 0>>, <<"Car", 0>>},
      icons |-> {}]}
Orders2 == {"BackToFront", "FrontToBack"}

PassArgs ==
    {[screen_bounds |-> sb, tick |-> t, hidden |-> p.hidden, icons |-> p.icons,
      order |-> o] : sb \in Screens, t \in {0, MaxTick}, p \in Policies, o \in Orders2}

InitPass ==
    /\ pc = "idle"
    /\ agents = NewAgentCache
    /\ borrow = 0
    /\ panicked = FALSE
    /\ putLog = <<>>
    /\ lastOp = NoOp
    /\ NoPass

Init ==
    /\ map = TheMap
    /\ flags = TheFlags
    /\ dm = new(TheMap, TheFlags, <<0>>)
    /\ InitPass

\* handle_objects is called: the quadtree is queried (line 296). The history
\* keeps the pass before if it ran to its end.
Begin(a) ==
    /\ pc \in {"idle", "done"} /\ ~panicked
    /\ passes' = passes + 1
    /\ prev' = IF pc = "done" /\ ~aborted
               THEN [arg |-> arg, delivered |-> delivered]
               ELSE <<>>
    /\ arg' = a
    /\ todo' = query(dm.quadtree, a.screen_bounds)
    /\ buckets' = EmptyBuckets
    /\ agents_on' = <<>>
    /\ borrows' = <<>>
    /\ delivered' = <<>>
    /\ aborted' = FALSE
    /\ run_asked' = IF pc = "done" /\ arg.tick = a.tick THEN run_asked ELSE EmptyMap
    /\ pc' = "classify"
    /\ UNCHANGED <<agents, borrow, panicked, apiVars, buildVars, asked>>

Start(a) ==
    /\ passes < MaxPasses
    /\ Begin(a)

\* One turn of the loop of lines 296-351.
Classify ==
    /\ pc = "classify" /\ ~panicked
    /\ todo # <<>>
    /\ LET st == classify([agents |-> agents, borrow |-> borrow, panic |-> FALSE,
                           buckets |-> buckets, agents_on |-> agents_on,
                           asked |-> asked, run_asked |-> run_asked],
                          arg, map, dm, Head(todo))
       IN  /\ agents' = st.agents
           /\ panicked' = st.panic
           /\ buckets' = st.buckets
           /\ agents_on' = st.agents_on
           /\ asked' = st.asked
           /\ run_asked' = st.run_asked
           /\ todo' = IF st.panic THEN todo ELSE Tail(todo)
    /\ UNCHANGED <<borrow, apiVars, buildVars, pc, arg, borrows, delivered, aborted,
                   passes, prev>>

\* Lines 353-374: after the loop, borrows is put together, sorted and maybe
\* reversed, under a shared borrow of the cache that lasts until the return.
\* With nothing to deliver, handle_objects returns.
Collect ==
    /\ pc = "classify" /\ ~panicked
    /\ todo = <<>>
    /\ LET dynamic == collect_agents(agents, agents_on)
           sorted == make_borrows(buckets, dynamic.list, arg.order)
       IN  IF borrow < 0 \/ dynamic.panic
           THEN panicked' = TRUE /\ UNCHANGED <<borrows, borrow, pc>>
           ELSE /\ panicked' = FALSE
                /\ borrows' = sorted
                /\ IF sorted = <<>>
                   THEN pc' = "done" /\ borrow' = borrow
                   ELSE pc' = "deliver" /\ borrow' = borrow + 1
    /\ UNCHANGED <<agents, apiVars, buildVars, arg, todo, buckets, agents_on,
                   delivered, aborted, passes, asked, run_asked, prev>>

\* Lines 376-380: the callback is called with the next element and returns
\* keep_going; after a false, or after the last element, handle_objects
\* returns and the shared borrow ends.
Callback(keep_going) ==
    /\ pc = "deliver" /\ ~panicked
    /\ Len(delivered) < Len(borrows)
    /\ delivered' = Append(delivered, borrows[Len(delivered) + 1])
    /\ aborted' = ~keep_going
    /\ pc' = after_callback(keep_going, Len(delivered) + 1, Len(borrows))
    /\ borrow' = IF pc' = "done" THEN borrow - 1 ELSE borrow
    /\ UNCHANGED <<agents, panicked, apiVars, buildVars, arg, todo, buckets,
                   agents_on, borrows, passes, asked, run_asked, prev>>

Next ==
    \/ \E a \in PassArgs : Start(a)
    \/ Classify
    \/ Collect
    \/ \E keep_going \in BOOLEAN : Callback(keep_going)

Spec == Init /\ [][Next]_vars

----------------------------------------------------------------------------
(* SpecTicks: more passes, over fewer screens and policies, every tick. *)

TickArgs ==
    {[screen_bounds |-> {0, 1}, tick |-> t, hidden |-> {}, icons |-> ic,
      order |-> "BackToFront"] : t \in Ticks, ic \in {{}, {0}}}

StartTick(a) ==
    /\ passes < MaxTickPasses
    /\ Begin(a)

NextTicks ==
    \/ \E a \in TickArgs : StartTick(a)
    \/ Classify
    \/ Collect
    \/ \E keep_going \in BOOLEAN : Callback(keep_going)

SpecTicks == Init /\ [][NextTicks]_vars

----------------------------------------------------------------------------
(* Claims about the passes over ticks, checked under SpecTicks. *)

\* C1 as stated: whatever ticks the passes report, sim is asked for the cars
\* and for the peds of a segment at most once per tick value.
C1_AskedOncePerTick ==
    \A k \in DOMAIN asked : asked[k].cars <= 1 /\ asked[k].peds <= 1

\* C1 amended: within a run of consecutive passes that report the same tick,
\* sim is asked for the cars and for the peds of a segment at most once, and
\* both or neither.
C1_AskedOncePerRun ==
    \A on \in DOMAIN run_asked :
        /\ run_asked[on].cars <= 1
        /\ run_asked[on].peds <= 1
        /\ run_asked[on].cars = run_asked[on].peds

\* C1 witness: a second pass of the same tick, screen and policy has ended,
\* its segments served from what the pass before asked.
C1_Witness ==
    /\ pc = "done"
    /\ prev # <<>>
    /\ prev.arg.tick = arg.tick
    /\ prev.arg.icons = arg.icons
    /\ Len(agents_on) >= 2
    /\ \A i \in 1..Len(agents_on) :
          /\ agents_on[i] \in DOMAIN run_asked
          /\ run_asked[agents_on[i]].cars = 1

\* C5: every dynamic drawable handed to the callback was built from sim while
\* it reported the tick of the pass that hands it over.
C5_DeliveredAgentsAreOfThisTick ==
    /\ \A i \in 1..Len(delivered) :
          delivered[i].tick # None => delivered[i].tick = Some(arg.tick)
    /\ \A i \in 1..Len(borrows) :
          borrows[i].tick # None => borrows[i].tick = Some(arg.tick)

\* C5 witness: a dynamic drawable is delivered for a segment that an earlier
\* pass had populated under another tick.
C5_Witness ==
    /\ passes >= 2
    /\ \E i \in 1..Len(delivered) :
          /\ delivered[i].tick = Some(arg.tick)
          /\ \E t \in Ticks : t # arg.tick /\ <<delivered[i].on, t>> \in DOMAIN asked

----------------------------------------------------------------------------
(* Claims about the order of one pass, checked under Spec. *)

\* The categories in the order the claim gives them; a dynamic agent comes
\* after all of them.
CategoryOrder ==
    <<"Area", "Parcel", "Lane", "Intersection", "Building", "ExtraShape", "BusStop", "Turn">>
CategoryRank(r) ==
    IF r.tick # None THEN Len(CategoryOrder) + 1
    ELSE CHOOSE i \in 1..Len(CategoryOrder) : CategoryOrder[i] = r.id[1]

\* The bucket of the record b that a static drawable is pushed to.
BucketIn(b, r) ==
    CASE r.id[1] = "Area" -> b.areas
      [] r.id[1] = "Parcel" -> b.parcels
      [] r.id[1] = "Lane" -> b.lanes
      [] r.id[1] = "Intersection" -> b.intersections
      [] r.id[1] = "Building" -> b.buildings
      [] r.id[1] = "ExtraShape" -> b.extra_shapes
      [] r.id[1] = "BusStop" -> b.bus_stops
      [] r.id[1] = "Turn" -> b.turn_icons
BucketOf(r) == BucketIn(buckets, r)

\* Where x first stands in s.
PosIn(s, x) == CHOOSE i \in 1..Len(s) : s[i] = x /\ \A j \in 1..(i - 1) : s[j] # x

\* a comes before b in the order before the sort, as the claim describes it.
BeforeSort(a, b) ==
    \/ CategoryRank(a) < CategoryRank(b)
    \/ /\ CategoryRank(a) = CategoryRank(b)
       /\ a.tick = None
       /\ PosIn(BucketOf(a), a) < PosIn(BucketOf(b), b)
    \/ /\ a.tick # None /\ b.tick # None
       /\ \/ PosIn(agents_on, a.on) < PosIn(agents_on, b.on)
          \/ /\ a.on = b.on
             /\ PosIn(agents.agents_per_on[a.on], a) < PosIn(agents.agents_per_on[b.on], b)

\* Everything the pass has to deliver: the buckets and the cached agents of
\* the recorded segments.
ToDeliver ==
    Range(buckets.areas) \cup Range(buckets.parcels) \cup Range(buckets.lanes)
        \cup Range(buckets.intersections) \cup Range(buckets.buildings)
        \cup Range(buckets.extra_shapes) \cup Range(buckets.bus_stops)
        \cup Range(buckets.turn_icons)
        \cup UNION {Range(agents.agents_per_on[on]) : on \in Range(agents_on)}

\* C6: back to front, what is delivered is in non-decreasing z-order and,
\* among equal z-orders, in the order before the sort (the categories in
\* their fixed order, each in the order classified, then the agents segment
\* by segment as recorded and within a segment as cached); a pass that is not
\* aborted delivers each of them once.
C6_BackToFrontSortedAndStable ==
    (pc \in {"deliver", "done"} /\ arg.order = "BackToFront") =>
        /\ \A i, j \in 1..Len(delivered) :
              i < j =>
                  \/ get_zorder(delivered[i]) < get_zorder(delivered[j])
                  \/ /\ get_zorder(delivered[i]) = get_zorder(delivered[j])
                     /\ BeforeSort(delivered[i], delivered[j])
        /\ (pc = "done" /\ ~aborted) =>
              /\ Range(delivered) = ToDeliver
              /\ Len(delivered) = Cardinality(ToDeliver)

\* C6 witness: a whole pass back to front, with agents of two segments, in
\* which the sort moved a later category before an earlier one and kept ties.
C6_Witness ==
    /\ pc = "done" /\ ~aborted /\ arg.order = "BackToFront"
    /\ Len(agents_on) >= 2
    /\ \E i, j \in 1..Len(delivered) :
          i < j /\ CategoryRank(delivered[i]) > CategoryRank(delivered[j])
    /\ \E i, j \in 1..Len(delivered) :
          /\ i < j
          /\ get_zorder(delivered[i]) = get_zorder(delivered[j])
          /\ delivered[i].tick # None /\ delivered[j].tick # None
          /\ delivered[i].on # delivered[j].on

SameInputs(a, b) ==
    /\ a.screen_bounds = b.screen_bounds
    /\ a.tick = b.tick
    /\ a.hidden = b.hidden
    /\ a.icons = b.icons

\* C7: of two passes in a row with the same screen, tick and policy, neither
\* aborted, one in each order, the second delivers the exact reverse of what
\* the first delivered.
C7_FrontToBackIsReverse ==
    (pc = "done" /\ ~aborted /\ prev # <<>>) =>
        ((SameInputs(prev.arg, arg) /\ prev.arg.order # arg.order) =>
            /\ Len(delivered) = Len(prev.delivered)
            /\ \A i \in 1..Len(delivered) :
                  delivered[i] = prev.delivered[Len(delivered) + 1 - i])

\* C7 witness: a front-to-back pass has ended after a back-to-front pass of
\* the same inputs, with equal z-orders among what was delivered.
C7_Witness ==
    /\ pc = "done" /\ ~aborted /\ prev # <<>>
    /\ SameInputs(prev.arg, arg)
    /\ prev.arg.order = "BackToFront" /\ arg.order = "FrontToBack"
    /\ Len(delivered) >= 4
    /\ \E i, j \in 1..Len(delivered) :
          i < j /\ get_zorder(delivered[i]) = get_zorder(delivered[j])
    /\ \E i \in 1..Len(delivered) : delivered[i].tick # None

C8_Prefix ==
    /\ Len(delivered) <= Len(borrows)
    /\ \A i \in 1..Len(delivered) : delivered[i] = borrows[i]
    /\ aborted => pc = "done"
    /\ (pc = "done" /\ ~aborted) => delivered = borrows

C8_Step ==
    passes' = passes =>
        /\ aborted => delivered' = delivered
        /\ delivered' # delivered =>
              delivered' = Append(delivered, borrows[Len(delivered) + 1])

\* C8: the callback gets the elements of borrows one at a time, in order;
\* once it has returned false the pass has ended and it is not called again;
\* if it never returns false it gets every element once.
C8_EarlyAbort == []C8_Prefix /\ [][C8_Step]_vars

\* C8 witness: the callback returned false on the second of at least four
\* elements, and the pass is over.
C8_Witness ==
    /\ aborted
    /\ pc = "done"
    /\ Len(delivered) = 2
    /\ Len(borrows) >= 4

----------------------------------------------------------------------------
(* SpecLeak: passes over a quadtree that answers with one id DrawMap::new  *)
(* never inserts. Only such an answer reaches the last arm of the match    *)
(* (lines 346-348), so what that arm does is checked against a quadtree    *)
(* with a leaked entry, at its front or at its end.                        *)

LeakIds ==
    {<<"Turn", TurnID(0, 0, 1)>>, <<"Car", 0>>, <<"Pedestrian", 0>>, <<"Trip", 0>>}

with_leak(d, leak, front) ==
    LET entry == [id |-> leak, bbox |-> {0}]
    IN  [d EXCEPT !.quadtree = IF front THEN <<entry>> \o @ ELSE Append(@, entry)]

InitLeak ==
    /\ map = TheMap
    /\ flags = TheFlags
    /\ \E leak \in LeakIds, front \in BOOLEAN :
          dm = with_leak(new(TheMap, TheFlags, <<0>>), leak, front)
    /\ InitPass

\* The policies either show the leaked id or hide it.
LeakArgs ==
    {[screen_bounds |-> sb, tick |-> 0, hidden |-> h, icons |-> ic,
      order |-> "BackToFront"] :
        sb \in Screens, h \in {{}, LeakIds}, ic \in {{}, {0}}}

NextLeak ==
    \/ \E a \in LeakArgs : Start(a)
    \/ Classify
    \/ Collect
    \/ \E keep_going \in BOOLEAN : Callback(keep_going)

SpecLeak == InitLeak /\ [][NextLeak]_vars

EightCategories ==
    {"Lane", "Intersection", "Turn", "Building", "Parcel", "ExtraShape", "BusStop", "Area"}
IndexedCategories == EightCategories \ {"Turn"}

\* The loop of lines 296-351 is about to look at an id that show() lets pass.
AtShownId ==
    /\ pc = "classify" /\ ~panicked
    /\ todo # <<>>
    /\ show(arg, Head(todo))

----------------------------------------------------------------------------
(* Claims about what a pass does for one id, checked under Spec. *)

\* The loop of lines 296-351 is about to look at an id that show() refuses.
AtHiddenId ==
    /\ pc = "classify" /\ ~panicked
    /\ todo # <<>>
    /\ Head(todo) \in arg.hidden

\* Nothing of the pass so far is on behalf of the hidden id.
NothingFor(id) ==
    /\ StaticR(id) \notin ToDeliver \cup Range(delivered)
    /\ id[1] = "Lane" => LaneSeg(id[2]) \notin Range(agents_on)
    /\ id[1] = "Intersection" =>
          \A t \in Range(map.intersections[id[2] + 1].turns) :
              /\ TurnSeg(t) \notin Range(agents_on)
              /\ StaticR(<<"Turn", t>>) \notin Range(buckets.turn_icons)

C13_HiddenLeftOut ==
    passes > 0 =>
        \A i \in 1..Len(dm.quadtree) :
            dm.quadtree[i].id \in arg.hidden => NothingFor(dm.quadtree[i].id)

C13_HiddenStep ==
    AtHiddenId =>
        /\ todo' = Tail(todo)
        /\ ~panicked'
        /\ buckets' = buckets
        /\ agents_on' = agents_on
        /\ agents' = agents
        /\ asked' = asked

\* C13: an id of the quadtree's answer that show() refuses is skipped: the
\* step that looks at it asks sim nothing, leaves the cache, the buckets and
\* the recorded segments as they were, and at no point of the pass is the
\* object in a bucket or delivered, its lane segment recorded, or a turn of
\* the intersection recorded or its icon in the bucket.
C13_HiddenIdDiscarded == []C13_HiddenLeftOut /\ [][C13_HiddenStep]_vars

\* C13 witness: a complete pass that delivered something while lane 1 and
\* intersection 0, both on the screen, were hidden.
C13_Witness ==
    /\ pc = "done" /\ ~aborted /\ ~panicked
    /\ delivered # <<>>
    /\ arg.screen_bounds = {0, 1}
    /\ {<<"Lane", 1>>, <<"Intersection", 0>>} \subseteq arg.hidden

\* The loop is about to look at a lane, or at an intersection, that show()
\* lets pass.
AtShownLane == AtShownId /\ Head(todo)[1] = "Lane"
AtShownIntersection == AtShownId /\ Head(todo)[1] = "Intersection"

\* The lanes and intersections of this pass: in the quadtree's answer and shown.
Visible(cat) ==
    {id \in Range(query(dm.quadtree, arg.screen_bounds)) : id[1] = cat /\ show(arg, id)}

\* The dynamic drawables delivered for a segment.
DeliveredOn(on) == {i \in 1..Len(delivered) : delivered[i].tick # None /\ delivered[i].on = on}

C15_LaneStep ==
    AtShownLane =>
        LET n == Head(todo)[2]
            on == LaneSeg(n)
            k == <<on, arg.tick>>
            count(log) == IF k \in DOMAIN log THEN log[k].cars + log[k].peds ELSE 0
        IN  /\ ~panicked'
            /\ IF show_icons_for(arg, map.lanes[n + 1].dst_i)
               THEN asked' = asked /\ agents' = agents /\ agents_on' = agents_on
               ELSE /\ has(agents', arg.tick, on)
                    /\ agents_on' = Append(agents_on, on)
                    /\ IF has(agents, arg.tick, on)
                       THEN asked' = asked /\ agents' = agents
                       ELSE /\ count(asked') = count(asked) + 2
                            /\ agents'.agents_per_on[on] = build_list(arg.tick, on)

C15_LaneAgentsDelivered ==
    passes > 0 /\ ~panicked =>
        \A id \in Visible("Lane") :
            LET on == LaneSeg(id[2]) IN
            IF show_icons_for(arg, map.lanes[id[2] + 1].dst_i)
            THEN on \notin Range(agents_on) /\ DeliveredOn(on) = {}
            ELSE /\ (pc # "classify" \/ todo = <<>>) => has(agents, arg.tick, on)
                 /\ pc = "done" /\ ~aborted =>
                        \A x \in Range(agents.agents_per_on[on]) :
                            Cardinality({i \in DeliveredOn(on) : delivered[i] = x}) = 1

\* C15: for a lane that is shown, if the icons of its destination
\* intersection are shown, sim is not asked, the cache and the recorded
\* segments stay as they are and no agent of the lane is delivered;
\* otherwise the lane's segment is recorded, the cache has it under the
\* pass's tick from then to the end of the pass, it was populated (sim asked
\* once for cars and once for peds) only if has() was false, and a pass that
\* is not aborted delivers each of its cached agents.
C15_VisibleLane == []C15_LaneAgentsDelivered /\ [][C15_LaneStep]_vars

\* C15 witness: a complete pass with icons shown at intersection 0 and not at
\* intersection 1 delivered the pedestrian of lane 1 and nothing of lane 0,
\* both lanes being on the screen and shown.
C15_Witness ==
    /\ pc = "done" /\ ~aborted /\ ~panicked
    /\ Visible("Lane") = {<<"Lane", 0>>, <<"Lane", 1>>, <<"Lane", 2>>}
    /\ arg.icons = {0}
    /\ DeliveredOn(LaneSeg(1)) # {}
    /\ DeliveredOn(LaneSeg(0)) = {}

C16_IntersectionStep ==
    AtShownIntersection =>
        LET i == Head(todo)[2]
            ts == map.intersections[i + 1].turns
        IN  /\ ~panicked'
            /\ buckets'.intersections = Append(buckets.intersections, StaticR(Head(todo)))
            /\ IF show_icons_for(arg, i)
               THEN /\ buckets'.turn_icons =
                          buckets.turn_icons \o [k \in 1..Len(ts) |-> StaticR(<<"Turn", ts[k]>>)]
                    /\ agents_on' = agents_on /\ agents' = agents /\ asked' = asked
               ELSE /\ buckets'.turn_icons = buckets.turn_icons
                    /\ agents_on' = agents_on \o [k \in 1..Len(ts) |-> TurnSeg(ts[k])]
                    /\ \A k \in 1..Len(ts) : has(agents', arg.tick, TurnSeg(ts[k]))

C16_IconOrAgents ==
    passes > 0 /\ ~panicked =>
        \A id \in Visible("Intersection") :
            \A t \in Range(map.intersections[id[2] + 1].turns) :
                LET icon == StaticR(<<"Turn", t>>)
                    on == TurnSeg(t)
                IN  /\ icon \in Range(buckets.turn_icons) => show_icons_for(arg, id[2])
                    /\ on \in Range(agents_on) => ~show_icons_for(arg, id[2])
                    /\ icon \in Range(delivered) => show_icons_for(arg, id[2])
                    /\ DeliveredOn(on) # {} => ~show_icons_for(arg, id[2])
                    /\ (pc # "classify" \/ todo = <<>>) =>
                          (icon \in Range(buckets.turn_icons)) # (on \in Range(agents_on))

\* C16: for every turn of an intersection that is shown, if the icons of
\* the intersection are shown the turn's icon is pushed to the turn-icon
\* bucket and its segment is neither asked for, cached nor recorded;
\* otherwise its segment is in the cache and recorded and its icon is
\* neither in the bucket nor delivered. Once the loop is over exactly one of
\* the two holds of each such turn.
C16_TurnIconXorAgents == []C16_IconOrAgents /\ [][C16_IntersectionStep]_vars

\* C16 witness: two complete passes over intersection 0, the one before with
\* its icons shown and the icons delivered, this one with the agents of its
\* turns delivered instead.
C16_Witness ==
    /\ pc = "done" /\ ~aborted /\ ~panicked
    /\ prev # <<>>
    /\ prev.arg.icons = {0} /\ <<"Intersection", 0>> \notin prev.arg.hidden
    /\ StaticR(<<"Turn", TurnID(0, 0, 1)>>) \in Range(prev.delivered)
    /\ arg.icons = {} /\ <<"Intersection", 0>> \notin arg.hidden
    /\ DeliveredOn(TurnSeg(TurnID(0, 0, 1))) # {}

----------------------------------------------------------------------------
(* Claims about the RefCell and the cache during passes. *)

\* C17: no pass panics on the RefCell: whenever the loop is between two ids,
\* and between passes, nothing borrows the cache (the Ref of each has() and
\* the RefMut of each put() are gone), and while borrows is streamed to the
\* callback exactly the one shared borrow of line 362 is out, taken after the
\* loop and its puts are over and returned when the pass ends.
C17_BorrowDiscipline ==
    /\ ~panicked
    /\ pc \in {"idle", "classify", "done"} => borrow = 0
    /\ pc = "deliver" => borrow = 1 /\ todo = <<>>

\* C17 witness: the callback is being called under the shared borrow in a
\* pass that put a list into the cache.
C17_Witness ==
    /\ pc = "deliver" /\ borrow = 1
    /\ delivered # <<>>
    /\ \E on \in Range(agents_on) : on \in DOMAIN run_asked

\* How often sim was asked, cars and peds together, under key k of a log.
Asks(log, k) == IF k \in DOMAIN log THEN log[k].cars + log[k].peds ELSE 0

\* C18: no step of a pass fails the assertion of put: every segment a step
\* puts a list for (sim is asked once for its cars and once for its peds) is
\* put under the pass's tick, once, and the cache had no entry for it under
\* that tick before the step.
C18_NoDuplicatePut ==
    [][(pc = "classify" /\ ~panicked) =>
          /\ ~panicked'
          /\ \A k \in DOMAIN asked' :
                Asks(asked', k) # Asks(asked, k) =>
                    /\ k[2] = arg.tick
                    /\ ~has(agents, k[2], k[1])
                    /\ Asks(asked', k) = Asks(asked, k) + 2]_vars

\* C18 witness: passes under both ticks 0 and 1 have put a list for the same
\* segment, and it was put a second time under the tick of this pass, after
\* the other tick had emptied the cache.
C18_Witness ==
    /\ pc = "done" /\ ~panicked
    /\ \E on \in Range(agents_on) :
          /\ <<on, 0>> \in DOMAIN asked /\ <<on, 1>> \in DOMAIN asked
          /\ Asks(asked, <<on, arg.tick>>) > 2

C19_RecordedAreCached ==
    (passes > 0 /\ ~panicked) =>
        \A on \in Range(agents_on) : has(agents, arg.tick, on)

C19_CollectStep ==
    (pc = "classify" /\ ~panicked /\ todo = <<>>) =>
        /\ ~panicked'
        /\ borrows' # <<>> => pc' = "deliver"
        /\ \A on \in Range(agents_on) :
              \A x \in Range(agents.agents_per_on[on]) : x \in Range(borrows')

\* C19: from the moment a segment is recorded to the end of the pass the
\* cache has an entry for it under the pass's tick, so no later put of the
\* pass evicts it, and the collection of lines 363-367 finds every recorded
\* segment and takes its list.
C19_GetNeverMisses == []C19_RecordedAreCached /\ [][C19_CollectStep]_vars

\* C19 witness: a pass recorded three segments or more, lanes and turns, and
\* is delivering their agents.
C19_Witness ==
    /\ pc = "deliver"
    /\ Cardinality(Range(agents_on)) >= 3
    /\ \E on \in Range(agents_on) : on[1] = "Turn"
    /\ \E i \in 1..Len(borrows) : borrows[i].tick # None

----------------------------------------------------------------------------
(* What is delivered, against the visibility policy. *)

\* C20 as stated: show() returns true for the id of every object delivered,
\* static drawable, turn icon or agent.
C20_DeliveredAreShown ==
    \A i \in 1..Len(delivered) : show(arg, delivered[i].id)

\* The lane, or the intersection of the turn, a segment belongs to.
OwnerOf(on) ==
    IF on[1] = "Lane" THEN <<"Lane", on[2]>> ELSE <<"Intersection", on[2].parent>>

\* C20 amended: show() returns true for the id of every lane, intersection,
\* building, parcel, extra shape, bus stop and area delivered; a turn icon
\* delivered is of an intersection for which show() returns true, and an
\* agent delivered is on a lane, or on a turn of an intersection, for which
\* show() returns true. show() is not asked about the ids of turn icons and
\* agents.
C20_DeliveredOwnersAreShown ==
    \A i \in 1..Len(delivered) :
        LET r == delivered[i] IN
        IF r.tick # None THEN show(arg, OwnerOf(r.on))
        ELSE IF r.id[1] = "Turn" THEN show(arg, <<"Intersection", r.id[2].parent>>)
        ELSE show(arg, r.id)

\* C20 witness: a complete pass delivered car 0 of lane 0 although the policy
\* hides the id of car 0, and nothing of the hidden lane 1.
C20_Witness ==
    /\ pc = "done" /\ ~aborted /\ ~panicked
    /\ {<<"Car", 0>>, <<"Lane", 1>>} \subseteq arg.hidden
    /\ arg.screen_bounds = {0, 1}
    /\ \E i \in 1..Len(delivered) :
          delivered[i].id = <<"Car", 0>> /\ delivered[i].on = LaneSeg(0)
    /\ \E i \in 1..Len(delivered) : delivered[i].id = <<"Lane", 0>>
    /\ DeliveredOn(LaneSeg(1)) = {}

====
